---- MODULE Spec2Model ----
(***************************************************************************)
(* A model of the v8 SCGI gateway server (v8.c): the parent process that   *)
(* multiplexes the listening socket and the signalfd, the fork-per-        *)
(* connection acceptor, the signal handler that reaps workers, and the     *)
(* single-request worker with its router.                                  *)
(*                                                                         *)
(* Two specifications share the variables:                                 *)
(*   Spec        the parent process and its workers; a worker is created   *)
(*               by v8_fork and later exits with the status v8_child_exec  *)
(*               computes for some request;                                *)
(*   SpecWorker  one worker process, step by step from the entry of        *)
(*               v8_child_exec to exit(), for every route table, base      *)
(*               path length and request within the bounds.                *)
(***************************************************************************)
EXTENDS Integers, Sequences, FiniteSets, TLC

\* ------------------------------------------------------------------ bounds
MaxConn == 2
MaxSignals == 2
MaxTableLen == 2
MaxPathLen == 2
MaxBase == 1

\* ------------------------------------------------------------- vocabulary
\* Characters are numbers so that strcmp can order them; 0 is the terminator.
Chars == {97, 98}
NULL == "NULL"
\* A char pointer that designates no string (a NULL route).
NullStr == <<-1>>

Methods == {"GET", "POST"}
V8_METHOD_UNKNOWN == "UNKNOWN"

RECURSIVE SeqsUpTo(_, _)
SeqsUpTo(S, n) ==
    IF n = 0 THEN {<<>>}
    ELSE LET shorter == SeqsUpTo(S, n - 1)
         IN  shorter \cup {Append(s, x) : s \in shorter, x \in S}

\* Request paths the protocol collaborator may deliver (v8_request_route).
Paths == SeqsUpTo(Chars, MaxPathLen)

\* Route strings an application may register: NULL or "a".
RouteStrings == {NullStr, <<97>>}

\* A route entry; its main handler is identified by the entry itself.
Entries == [method : Methods, route : RouteStrings, filter : {NULL, "filter"}]
Sentinel == [method |-> V8_METHOD_UNKNOWN, route |-> <<>>, filter |-> NULL]

\* A route table: entries in declaration order, then the sentinel.
Tables == {Append(t, Sentinel) : t \in SeqsUpTo(Entries, MaxTableLen)}

\* ----------------------------------------------------------------- strings
CharAt(s, k) == IF k <= Len(s) THEN s[k] ELSE 0

RECURSIVE StrcmpFrom(_, _, _)
StrcmpFrom(s, t, k) ==
    LET a == CharAt(s, k)
        b == CharAt(t, k)
    IN  IF a # b THEN (IF a < b THEN -1 ELSE 1)
        ELSE IF a = 0 THEN 0
        ELSE StrcmpFrom(s, t, k + 1)

strcmp(s, t) == StrcmpFrom(s, t, 1)

\* The string a pointer `s + n` designates when n <= strlen(s).
PtrAdd(s, n) == SubSeq(s, n + 1, Len(s))

VARIABLES
    \* struct v8_t, fixed by v8_init
    actions,        \* the route table
    base_size,      \* strlen of v8.baseurl
    app_init,       \* the application-data initializer, or NULL
    \* one worker process, step by step (SpecWorker)
    child,          \* the worker's copy of the process state and its position
    inp,            \* what the worker's environment answers (request, syscalls)
    \* the parent process (Spec)
    ppc,            \* the parent's position
    listeners,      \* descriptors registered with the dispatcher
    batch,          \* the dispatcher's current readiness batch
    stop,           \* the dispatcher's stop flag
    stopCalls,      \* calls of v8_dispatcher_stop so far
    backlog,        \* connections pending on the listening socket
    nconn,          \* connections that have arrived so far
    newsock,        \* v8_handle_connection's newsock (0 before the first accept)
    psock,          \* the parent's copy of each accepted socket
    cycles,         \* accept/fork cycles of the running acceptor invocation
    drainTarget,    \* connections pending at its entry plus those arrived since
    sigpending,     \* signals pending on the signalfd
    nsig,           \* external signals that have arrived so far
    entryZombies,   \* workers already exited when the signal handler was entered
    chldAtEntry,    \* whether SIGCHLD was pending when it was entered
    chldRead,       \* whether this invocation has read a SIGCHLD record
    pid,            \* the pid variable of the reaping loops
    outlog,         \* child-outcome log entries written by v8_handle_signal
    workers,        \* the worker process of each connection
    retval          \* what v8_start returned

cfgvars    == <<actions, base_size, app_init>>
childvars  == <<child, inp>>
connvars   == <<backlog, nconn, newsock, psock, cycles, drainTarget>>
sigvars    == <<sigpending, nsig, entryZombies, chldAtEntry, chldRead, pid, outlog>>
dispvars   == <<listeners, batch, stop, stopCalls>>
parentvars == <<ppc, dispvars, connvars, sigvars, workers, retval>>
vars       == <<cfgvars, childvars, parentvars>>

\* ------------------------------------------------------------- the worker
\* What the environment answers to one worker: the result of sigprocmask,
\* of v8_scgi_request_read, the parsed method and path, what the matched
\* entry's filter returns, and what reading past the end of the path does
\* when the path is shorter than the base prefix.
WorkerInputs ==
    [unblock_ok : BOOLEAN, read_ok : BOOLEAN,
     method : Methods \cup {V8_METHOD_UNKNOWN}, route : Paths,
     filter_ret : {NULL, "alt"},
     ub : {"mem", "SEGV"}, garbage : SeqsUpTo({97}, 1)]

\* Fields that cannot influence the run take one fixed value.
CanonicalInput(x) ==
    /\ (~x.unblock_ok => x.read_ok)
    /\ (~(x.unblock_ok /\ x.read_ok) =>
            /\ x.method = "GET" /\ x.route = <<>> /\ x.filter_ret = NULL)
    /\ (~(x.unblock_ok /\ x.read_ok /\ Len(x.route) < base_size) =>
            /\ x.ub = "mem" /\ x.garbage = <<>>)
    /\ (x.ub = "SEGV" => x.garbage = <<>> /\ x.filter_ret = NULL)

\* The process image a worker starts with: fork copies the parent's.
ChildEntry ==
    [pc |-> "close_sigfd",
     sigfd |-> "open", sockfd |-> "open", dispatcher |-> "alive",
     sigmask |-> "blocked", sock |-> "open",
     request |-> "none", response |-> "none",
     method |-> V8_METHOD_UNKNOWN, route |-> <<>>, path |-> <<>>,
     app_data |-> NULL, i |-> 0, filter_handler |-> NULL, calls |-> <<>>,
     status |-> "DEFAULT", sent |-> 0, ret |-> 0,
     how |-> "running", code |-> 0]

\* v8_child_exec, lines 310-316
CloseSigfd(w) == [w EXCEPT !.sigfd = "closed", !.pc = "close_sockfd"]

CloseSockfd_Skipped(w) == [w EXCEPT !.pc = "destroy_dispatcher"]
CloseSockfd(w) == [w EXCEPT !.sockfd = "closed", !.pc = "destroy_dispatcher"]

DestroyDispatcher(w) == [w EXCEPT !.dispatcher = NULL, !.pc = "unblock"]

\* v8_child_exec, lines 318-331
UnblockSignals(w, x) ==
    IF x.unblock_ok
    THEN [w EXCEPT !.sigmask = "unblocked", !.pc = "create"]
    ELSE [w EXCEPT !.ret = -1, !.pc = "exit"]

\* v8_request_handler, lines 339-346
RequestCreate(w) ==
    [w EXCEPT !.request = "created", !.response = "created", !.i = 0,
              !.ret = 0, !.pc = "read"]

\* lines 348-355
RequestRead_FallsThrough(w, x) ==
    [w EXCEPT !.ret = IF x.read_ok THEN 0 ELSE -1,
              !.request = "read", !.method = x.method, !.route = x.route,
              !.pc = "app_init"]
RequestRead(w, x) ==
    IF x.read_ok
    THEN [w EXCEPT !.ret = 0, !.request = "read", !.method = x.method,
                   !.route = x.route, !.pc = "app_init"]
    ELSE [w EXCEPT !.ret = -1, !.pc = "error_cleanup"]

\* lines 357-360
AppInit_NotStored(w) ==
    IF app_init # NULL
    THEN [w EXCEPT !.calls = Append(@, <<"init", 0>>), !.pc = "strip"]
    ELSE [w EXCEPT !.pc = "strip"]
AppInit(w) ==
    IF app_init # NULL
    THEN [w EXCEPT !.app_data = "data", !.calls = Append(@, <<"init", 0>>),
                   !.pc = "strip"]
    ELSE [w EXCEPT !.pc = "strip"]

\* line 362 and the first operand of strcmp at 368: route + v8->base_size.
\* Past the end of the path the read is undefined: it finds whatever bytes
\* follow, or the process dies.
StripBase_NoStrip(w, x) ==
    [w EXCEPT !.path = w.route, !.i = 0, !.pc = "route"]
StripBase(w, x) ==
    IF base_size <= Len(w.route)
    THEN [w EXCEPT !.path = PtrAdd(w.route, base_size), !.i = 0, !.pc = "route"]
    ELSE IF x.ub = "SEGV"
    THEN [w EXCEPT !.how = "signaled", !.pc = "exited"]
    ELSE [w EXCEPT !.path = x.garbage, !.i = 0, !.pc = "route"]

\* lines 366-368
RouteMatches_AnyMethod(a, method, path) ==
    /\ a.route # NullStr
    /\ strcmp(path, a.route) = 0
RouteMatches(a, method, path) ==
    /\ method = a.method
    /\ a.route # NullStr
    /\ strcmp(path, a.route) = 0

\* lines 370-381: the matched entry's filter, then one handler
InvokeEntry_NoBreak(w, x) ==
    LET a == actions[w.i + 1]
        k == w.i
    IN  IF a.filter # NULL
        THEN IF x.filter_ret # NULL
             THEN [w EXCEPT !.filter_handler = x.filter_ret,
                            !.calls = @ \o <<<<"filter", k>>, <<"alt", k>>,
                                             <<"handler", k>>>>,
                            !.pc = "check"]
             ELSE [w EXCEPT !.calls = @ \o <<<<"filter", k>>, <<"handler", k>>>>,
                            !.pc = "check"]
        ELSE [w EXCEPT !.calls = Append(@, <<"handler", k>>), !.pc = "check"]
InvokeEntry_SkipsHandler(w, x) ==
    LET a == actions[w.i + 1]
        k == w.i
    IN  IF a.filter # NULL
        THEN IF x.filter_ret # NULL
             THEN [w EXCEPT !.filter_handler = x.filter_ret,
                            !.calls = @ \o <<<<"filter", k>>, <<"alt", k>>>>,
                            !.pc = "check"]
             ELSE [w EXCEPT !.calls = Append(@, <<"filter", k>>), !.pc = "check"]
        ELSE [w EXCEPT !.calls = Append(@, <<"handler", k>>), !.pc = "check"]
InvokeEntry(w, x) ==
    LET a == actions[w.i + 1]
        k == w.i
    IN  IF a.filter # NULL
        THEN IF x.filter_ret # NULL
             THEN [w EXCEPT !.filter_handler = x.filter_ret,
                            !.calls = @ \o <<<<"filter", k>>, <<"alt", k>>>>,
                            !.pc = "check"]
             ELSE [w EXCEPT !.calls = @ \o <<<<"filter", k>>, <<"handler", k>>>>,
                            !.pc = "check"]
        ELSE [w EXCEPT !.calls = Append(@, <<"handler", k>>), !.pc = "check"]

\* lines 364-383: one iteration of the scan
RouteStep_LastWins(w, x) ==
    LET a == actions[w.i + 1]
    IN  IF a.method = V8_METHOD_UNKNOWN
        THEN [w EXCEPT !.pc = "check"]
        ELSE IF /\ RouteMatches(a, w.method, w.path)
                /\ \A j \in (w.i + 2)..(Len(actions) - 1) :
                       ~RouteMatches(actions[j], w.method, w.path)
        THEN InvokeEntry(w, x)
        ELSE [w EXCEPT !.i = @ + 1]
RouteStep(w, x) ==
    LET a == actions[w.i + 1]
    IN  IF a.method = V8_METHOD_UNKNOWN
        THEN [w EXCEPT !.pc = "check"]
        ELSE IF RouteMatches(a, w.method, w.path)
        THEN InvokeEntry(w, x)
        ELSE [w EXCEPT !.i = @ + 1]

\* lines 385-389
NotFoundCheck_Always(w) == [w EXCEPT !.status = "NOT_FOUND", !.pc = "send"]
NotFoundCheck(w) ==
    IF actions[w.i + 1].method = V8_METHOD_UNKNOWN
    THEN [w EXCEPT !.status = "NOT_FOUND", !.pc = "send"]
    ELSE [w EXCEPT !.pc = "send"]

\* line 391
ResponseSend_Skipped(w) == [w EXCEPT !.pc = "destroy"]
ResponseSend(w) == [w EXCEPT !.sent = @ + 1, !.pc = "destroy"]

\* lines 392-393
Destroy(w) ==
    [w EXCEPT !.response = "destroyed", !.request = "destroyed", !.pc = "close"]

\* lines 395-397
CloseSock(w) == [w EXCEPT !.sock = "closed", !.ret = 0, !.pc = "exit"]

\* lines 399-402
ErrorCleanup(w) == [w EXCEPT !.sock = "closed", !.ret = -1, !.pc = "exit"]

\* exit(status): the parent sees status & 0377
ExitCode(ret) == ret % 256

\* lines 330 and 334
ProcessExit(w) ==
    [w EXCEPT !.how = "exited", !.code = ExitCode(w.ret), !.sock = "closed",
              !.pc = "exited"]

\* One step of the worker from its position.
ChildStep(w, x) ==
    CASE w.pc = "close_sigfd"        -> CloseSigfd(w)
      [] w.pc = "close_sockfd"       -> CloseSockfd(w)
      [] w.pc = "destroy_dispatcher" -> DestroyDispatcher(w)
      [] w.pc = "unblock"            -> UnblockSignals(w, x)
      [] w.pc = "create"             -> RequestCreate(w)
      [] w.pc = "read"               -> RequestRead(w, x)
      [] w.pc = "app_init"           -> AppInit(w)
      [] w.pc = "strip"              -> StripBase(w, x)
      [] w.pc = "route"              -> RouteStep(w, x)
      [] w.pc = "check"              -> NotFoundCheck(w)
      [] w.pc = "send"               -> ResponseSend(w)
      [] w.pc = "destroy"            -> Destroy(w)
      [] w.pc = "close"              -> CloseSock(w)
      [] w.pc = "error_cleanup"      -> ErrorCleanup(w)
      [] w.pc = "exit"               -> ProcessExit(w)
      [] OTHER                       -> w

\* v8_child_exec from entry to the end of the process.
RECURSIVE RunChild(_, _)
RunChild(w, x) == IF w.pc = "exited" THEN w ELSE RunChild(ChildStep(w, x), x)

\* ------------------------------------------------- the worker, step by step
ChildAt(pc) == child.pc = pc /\ UNCHANGED <<cfgvars, inp, parentvars>>

ChildCloseSigfd          == ChildAt("close_sigfd") /\ child' = CloseSigfd(child)
ChildCloseSockfd         == ChildAt("close_sockfd") /\ child' = CloseSockfd(child)
ChildDestroyDispatcher   == ChildAt("destroy_dispatcher") /\ child' = DestroyDispatcher(child)
ChildUnblockSignals      == ChildAt("unblock") /\ child' = UnblockSignals(child, inp)
ChildRequestCreate       == ChildAt("create") /\ child' = RequestCreate(child)
ChildRequestRead         == ChildAt("read") /\ child' = RequestRead(child, inp)
ChildAppInit             == ChildAt("app_init") /\ child' = AppInit(child)
ChildStripBase           == ChildAt("strip") /\ child' = StripBase(child, inp)
ChildRouteStep           == ChildAt("route") /\ child' = RouteStep(child, inp)
ChildNotFoundCheck       == ChildAt("check") /\ child' = NotFoundCheck(child)
ChildResponseSend        == ChildAt("send") /\ child' = ResponseSend(child)
ChildDestroy             == ChildAt("destroy") /\ child' = Destroy(child)
ChildCloseSock           == ChildAt("close") /\ child' = CloseSock(child)
ChildErrorCleanup        == ChildAt("error_cleanup") /\ child' = ErrorCleanup(child)
ChildExit                == ChildAt("exit") /\ child' = ProcessExit(child)

\* ------------------------------------------------------------- the parent
Conns == 1..MaxConn

TermSignals == {"SIGINT", "SIGQUIT", "SIGTERM"}
\* The mask v8_init_signals blocks and hands to signalfd.
SigMask == TermSignals \cup {"SIGCHLD", "SIGHUP"}

NoWorker == [st |-> "none", how |-> "none", code |-> 0]

Zombies  == {c \in Conns : workers[c].st = "zombie"}
Running  == {c \in Conns : workers[c].st = "running"}
Children == Zombies \cup Running

\* v8_start, lines 103-111: register both listeners, enter the dispatcher.
V8Start ==
    /\ ppc = "start"
    /\ listeners' = {"sockfd", "sigfd"}
    /\ ppc' = "loop"
    /\ UNCHANGED <<cfgvars, childvars, batch, stop, stopCalls, connvars, sigvars,
                   workers, retval>>

\* A client connects to the listening socket.
ConnArrive ==
    /\ nconn < MaxConn
    /\ nconn' = nconn + 1
    /\ backlog' = Append(backlog, nconn + 1)
    /\ drainTarget' = IF ppc \in {"conn", "fork"} THEN drainTarget + 1 ELSE drainTarget
    /\ UNCHANGED <<cfgvars, childvars, ppc, dispvars, newsock, psock, cycles,
                   sigvars, workers, retval>>

\* A signal of the mask is sent to the parent from outside.
SignalArrive ==
    /\ nsig < MaxSignals
    /\ \E s \in SigMask \ {"SIGCHLD"} : sigpending' = sigpending \cup {s}
    /\ nsig' = nsig + 1
    /\ UNCHANGED <<cfgvars, childvars, ppc, dispvars, connvars, entryZombies,
                   chldAtEntry, chldRead, pid, outlog, workers, retval>>

\* Descriptors the multiplexer would report readable.
Ready ==
    {fd \in listeners : \/ fd = "sockfd" /\ backlog # <<>>
                        \/ fd = "sigfd" /\ sigpending # {}}

\* v8_dispatcher_start: wait for readiness and take a batch of events.
DispatcherWait ==
    /\ ppc = "loop" /\ batch = {} /\ ~stop
    /\ \E b \in SUBSET Ready : b # {} /\ batch' = b
    /\ UNCHANGED <<cfgvars, childvars, ppc, listeners, stop, stopCalls, connvars,
                   sigvars, workers, retval>>

\* The dispatcher delivers one event of the batch to its input handler.
DispatchEvent ==
    /\ ppc = "loop" /\ batch # {}
    /\ \E fd \in batch :
        /\ batch' = batch \ {fd}
        /\ IF fd = "sockfd"
           THEN /\ ppc' = "conn"
                /\ newsock' = 0
                /\ cycles' = 0
                /\ drainTarget' = Len(backlog)
                /\ UNCHANGED <<entryZombies, chldAtEntry, chldRead>>
           ELSE /\ ppc' = "sig"
                /\ entryZombies' = Zombies
                /\ chldAtEntry' = ("SIGCHLD" \in sigpending)
                /\ chldRead' = FALSE
                /\ UNCHANGED <<newsock, cycles, drainTarget>>
    /\ UNCHANGED <<cfgvars, childvars, listeners, stop, stopCalls, backlog, nconn,
                   psock, sigpending, nsig, pid, outlog, workers, retval>>

\* v8_dispatcher_stop
DispatcherStop ==
    /\ stop' = TRUE
    /\ stopCalls' = stopCalls + 1

\* The loop ends once the batch is finished and stop was requested.
DispatcherReturn ==
    /\ ppc = "loop" /\ batch = {} /\ stop
    /\ ppc' = "wait"
    /\ UNCHANGED <<cfgvars, childvars, dispvars, connvars, sigvars, workers, retval>>

\* The loop ends on an unrecoverable multiplexing error.
DispatcherError ==
    /\ ppc = "loop" /\ batch = {} /\ ~stop
    /\ ppc' = "wait"
    /\ UNCHANGED <<cfgvars, childvars, dispvars, connvars, sigvars, workers, retval>>

\* What accept(2) may answer: a connection, EAGAIN when none is pending, or
\* another error (EMFILE, ENOMEM, ...) that leaves the backlog as it is.
AcceptResults ==
    (IF backlog # <<>> THEN {"ok"} ELSE {"EAGAIN"}) \cup {"error"}

\* v8_handle_connection, lines 436-453: one turn of the while loop up to the
\* call of v8_fork; the loop ends when accept returned -1.
AcceptTurn(r) ==
    /\ ppc = "conn"
    /\ IF r = "ok"
       THEN /\ newsock' = Head(backlog)
            /\ backlog' = Tail(backlog)
            /\ psock' = [psock EXCEPT ![Head(backlog)] = "open"]
            /\ ppc' = "fork"
            /\ UNCHANGED <<cycles, drainTarget>>
       ELSE /\ newsock' = -1
            /\ ppc' = "loop"
            /\ cycles' = 0
            /\ drainTarget' = 0
            /\ UNCHANGED <<backlog, psock>>

HandleConnection ==
    /\ \E r \in AcceptResults : AcceptTurn(r)
    /\ UNCHANGED <<cfgvars, childvars, dispvars, nconn, sigvars, workers, retval>>

\* v8_fork, lines 280-302, in the parent: fork, then close the accepted socket.
\* The child starts v8_child_exec and never comes back here.
Fork_LeakOnFailure(ok) ==
    /\ ppc = "fork"
    /\ workers' = IF ok THEN [workers EXCEPT ![newsock] =
                                 [st |-> "running", how |-> "none", code |-> 0]]
                  ELSE workers
    /\ psock' = IF ok THEN [psock EXCEPT ![newsock] = "closed"] ELSE psock
    /\ cycles' = cycles + 1
    /\ ppc' = "conn"
Fork_NoClose(ok) ==
    /\ ppc = "fork"
    /\ workers' = IF ok THEN [workers EXCEPT ![newsock] =
                                 [st |-> "running", how |-> "none", code |-> 0]]
                  ELSE workers
    /\ psock' = psock
    /\ cycles' = cycles + 1
    /\ ppc' = "conn"
Fork(ok) ==
    /\ ppc = "fork"
    /\ workers' = IF ok THEN [workers EXCEPT ![newsock] =
                                 [st |-> "running", how |-> "none", code |-> 0]]
                  ELSE workers
    /\ psock' = [psock EXCEPT ![newsock] = "closed"]
    /\ cycles' = cycles + 1
    /\ ppc' = "conn"

V8Fork ==
    /\ \E ok \in BOOLEAN : Fork(ok)
    /\ UNCHANGED <<cfgvars, childvars, dispvars, backlog, nconn, newsock,
                   drainTarget, sigvars, retval>>

\* The worker environments of the server specification: sigprocmask fails,
\* the read fails, a request that matches a route, one that matches none.
ServerInputs ==
    LET ok == [unblock_ok |-> TRUE, read_ok |-> TRUE, method |-> "GET",
               route |-> <<97>>, filter_ret |-> NULL, ub |-> "mem",
               garbage |-> <<>>]
    IN  {[ok EXCEPT !.unblock_ok = FALSE], [ok EXCEPT !.read_ok = FALSE],
         ok, [ok EXCEPT !.route = <<98>>]}

\* A worker runs v8_child_exec to its end; the parent is sent SIGCHLD.
WorkerExit ==
    /\ \E c \in Running, x \in ServerInputs :
        /\ LET w == RunChild(ChildEntry, x)
           IN  workers' = [workers EXCEPT ![c] =
                              [st |-> "zombie", how |-> w.how, code |-> w.code]]
    /\ sigpending' = sigpending \cup {"SIGCHLD"}
    /\ UNCHANGED <<cfgvars, childvars, ppc, dispvars, connvars, nsig, entryZombies,
                   chldAtEntry, chldRead, pid, outlog, retval>>

\* A worker is killed by a signal from outside (its mask is unblocked).
WorkerKilled ==
    /\ \E c \in Running :
        workers' = [workers EXCEPT ![c] =
                       [st |-> "zombie", how |-> "signaled", code |-> 0]]
    /\ sigpending' = sigpending \cup {"SIGCHLD"}
    /\ UNCHANGED <<cfgvars, childvars, ppc, dispvars, connvars, nsig, entryZombies,
                   chldAtEntry, chldRead, pid, outlog, retval>>

\* What read(2) on the signalfd may answer: a whole record of a pending
\* signal, EAGAIN when none is pending, or a failed or short read.
SigReadResults ==
    (IF sigpending # {} THEN sigpending ELSE {"EAGAIN"}) \cup {"error"}

\* The switch of v8_handle_signal, lines 484-532: what a record leads to.
SignalCase_TermIgnored(signo) ==
    CASE signo \in {"SIGINT", "SIGQUIT"} -> "stop"
      [] signo = "SIGCHLD"               -> "reap"
      [] signo = "SIGHUP"                -> "reload"
      [] OTHER                           -> "unexpected"
SignalCase_HupStops(signo) ==
    CASE signo \in {"SIGINT", "SIGQUIT", "SIGTERM", "SIGHUP"} -> "stop"
      [] signo = "SIGCHLD"                          -> "reap"
      [] OTHER                                      -> "unexpected"
SignalCase(signo) ==
    CASE signo \in {"SIGINT", "SIGQUIT", "SIGTERM"} -> "stop"
      [] signo = "SIGCHLD"                          -> "reap"
      [] signo = "SIGHUP"                           -> "reload"
      [] OTHER                                      -> "unexpected"

\* v8_handle_signal, lines 471-491 and 525-533: one turn of the while loop,
\* up to the reaping loop of the SIGCHLD case.
SignalTurn(r) ==
    /\ ppc = "sig"
    /\ IF r \in {"EAGAIN", "error"}
       THEN /\ ppc' = "loop"
            /\ entryZombies' = {}
            /\ chldAtEntry' = FALSE
            /\ chldRead' = FALSE
            /\ UNCHANGED <<sigpending, stop, stopCalls>>
       ELSE /\ sigpending' = sigpending \ {r}
            /\ CASE SignalCase(r) = "stop" ->
                        /\ DispatcherStop
                        /\ ppc' = "sig"
                        /\ UNCHANGED chldRead
                 [] SignalCase(r) = "reap" ->
                        /\ ppc' = "reap"
                        /\ chldRead' = TRUE
                        /\ UNCHANGED <<stop, stopCalls>>
                 [] OTHER ->
                        /\ ppc' = "sig"
                        /\ UNCHANGED <<stop, stopCalls, chldRead>>
            /\ UNCHANGED <<entryZombies, chldAtEntry>>

HandleSignal ==
    /\ \E r \in SigReadResults : SignalTurn(r)
    /\ UNCHANGED <<cfgvars, childvars, listeners, batch, connvars, nsig, pid,
                   outlog, workers, retval>>

\* What waitpid(-1, &status, WNOHANG) and wait(&status) answer: the pid of an
\* exited child (positive), 0 when children exist but none has exited
\* (WNOHANG only), -1 with ECHILD when there is no child.
WaitResults == IF Zombies # {} THEN Zombies ELSE IF Running # {} THEN {0} ELSE {-1}

\* `pid = waitpid(...) > 0`: the comparison binds tighter than the assignment.
PidAssigned(r) == IF r > 0 THEN 1 ELSE 0

Reap(c) == [workers EXCEPT ![c].st = "reaped"]

\* Lines 506-521: the outcome of the child is logged when pid > 0.
OutcomeLogged(p) == ~(p < 0) /\ ~(p = 0)

\* Line 494 and lines 496-524: one call of waitpid in the SIGCHLD case.
WaitpidTurn_Once(r) ==
    /\ ppc = "reap"
    /\ pid' = PidAssigned(r)
    /\ IF r > 0
       THEN /\ workers' = Reap(r)
            /\ ppc' = "sig"
            /\ UNCHANGED outlog
       ELSE /\ outlog' = IF OutcomeLogged(PidAssigned(r)) THEN outlog + 1 ELSE outlog
            /\ ppc' = "sig"
            /\ UNCHANGED workers
WaitpidTurn(r) ==
    /\ ppc = "reap"
    /\ pid' = PidAssigned(r)
    /\ IF r > 0
       THEN /\ workers' = Reap(r)
            /\ ppc' = "reap"
            /\ UNCHANGED outlog
       ELSE /\ outlog' = IF OutcomeLogged(PidAssigned(r)) THEN outlog + 1 ELSE outlog
            /\ ppc' = "sig"
            /\ UNCHANGED workers

ReapChildren ==
    /\ \E r \in WaitResults : WaitpidTurn(r)
    /\ UNCHANGED <<cfgvars, childvars, dispvars, connvars, sigpending, nsig,
                   entryZombies, chldAtEntry, chldRead, retval>>

\* v8_start, lines 113-123: the blocking wait loop, then return 0.  wait()
\* blocks while children run and none has exited.
FinalWait_NoLoop(r) ==
    /\ ppc = "wait"
    /\ pid' = PidAssigned(r)
    /\ IF r > 0
       THEN /\ workers' = Reap(r)
            /\ ppc' = "done"
            /\ retval' = 0
       ELSE /\ ppc' = "done"
            /\ retval' = 0
            /\ UNCHANGED workers
FinalWait(r) ==
    /\ ppc = "wait"
    /\ r # 0
    /\ pid' = PidAssigned(r)
    /\ IF r > 0
       THEN /\ workers' = Reap(r)
            /\ ppc' = "wait"
            /\ UNCHANGED retval
       ELSE /\ ppc' = "done"
            /\ retval' = 0
            /\ UNCHANGED workers

V8StartWait ==
    /\ \E r \in WaitResults : FinalWait(r)
    /\ UNCHANGED <<cfgvars, childvars, dispvars, connvars, sigpending, nsig,
                   entryZombies, chldAtEntry, chldRead, outlog>>

\* --------------------------------------------------------- specifications
\* The table of the server specification: two routes, the second guarded.
ServerTable ==
    <<[method |-> "GET", route |-> <<97>>, filter |-> NULL],
      [method |-> "POST", route |-> <<97>>, filter |-> "filter"],
      Sentinel>>

ParentInit ==
    /\ ppc = "start"
    /\ listeners = {} /\ batch = {} /\ stop = FALSE /\ stopCalls = 0
    /\ backlog = <<>> /\ nconn = 0 /\ newsock = 0
    /\ psock = [c \in Conns |-> "none"]
    /\ cycles = 0 /\ drainTarget = 0
    /\ sigpending = {} /\ nsig = 0
    /\ entryZombies = {} /\ chldAtEntry = FALSE /\ chldRead = FALSE
    /\ pid = 0 /\ outlog = 0
    /\ workers = [c \in Conns |-> NoWorker]
    /\ retval = -1

\* After v8_init: nothing registered, nothing pending, no worker.
Init ==
    /\ actions = ServerTable /\ base_size = 0 /\ app_init = NULL
    /\ child = ChildEntry
    /\ inp = CHOOSE x \in ServerInputs : ~x.unblock_ok
    /\ ParentInit

Next ==
    \/ V8Start
    \/ ConnArrive
    \/ SignalArrive
    \/ DispatcherWait
    \/ DispatchEvent
    \/ DispatcherReturn
    \/ DispatcherError
    \/ HandleConnection
    \/ V8Fork
    \/ WorkerExit
    \/ WorkerKilled
    \/ HandleSignal
    \/ ReapChildren
    \/ V8StartWait

Spec == Init /\ [][Next]_vars

\* A worker at the entry of v8_child_exec, for every table, base path length,
\* initializer setting and environment within the bounds.
InitWorker ==
    /\ actions \in Tables
    /\ base_size \in 0..MaxBase
    /\ app_init \in {NULL, "init"}
    /\ child = ChildEntry
    /\ inp \in WorkerInputs
    /\ CanonicalInput(inp)
    /\ ParentInit

NextWorker ==
    \/ ChildCloseSigfd
    \/ ChildCloseSockfd
    \/ ChildDestroyDispatcher
    \/ ChildUnblockSignals
    \/ ChildRequestCreate
    \/ ChildRequestRead
    \/ ChildAppInit
    \/ ChildStripBase
    \/ ChildRouteStep
    \/ ChildNotFoundCheck
    \/ ChildResponseSend
    \/ ChildDestroy
    \/ ChildCloseSock
    \/ ChildErrorCleanup
    \/ ChildExit

SpecWorker == InitWorker /\ [][NextWorker]_vars

\* ------------------------------------------------------------------ claims
Min(S) == CHOOSE m \in S : \A n \in S : m <= n

\* Signals of the termination family, as the specification lists them.
TerminationFamily == {"SIGINT", "SIGQUIT", "SIGTERM"}

\* The signal record a step takes off the signalfd, if any.
Consumed == sigpending \ sigpending'

NewlyReaped == {c \in Conns : workers[c].st # "reaped" /\ workers'[c].st = "reaped"}
NewlyForked == {c \in Conns : workers[c].st = "none" /\ workers'[c].st # "none"}

\* C1: a single invocation of the acceptor returns only when accept reports
\* would-block, leaving no pending connection behind, and has then performed
\* exactly one accept/fork cycle per connection that was pending (at its
\* entry or arrived while it drained).
C1_DrainToEagain ==
    [][(ppc = "conn" /\ ppc' = "loop") =>
            (backlog = <<>> /\ cycles = drainTarget)]_vars

RequestParsed == child.request \in {"read", "destroyed"}
InBounds == base_size <= Len(child.route)
Stripped == SubSeq(child.route, base_size + 1, Len(child.route))
MatchSet ==
    {k \in 0..(Len(actions) - 2) :
        actions[k + 1].method = child.method /\ actions[k + 1].route = Stripped}
Routed ==
    \/ child.pc \in {"check", "send", "destroy", "close"}
    \/ child.pc \in {"exit", "exited"} /\ child.sent > 0
HandlerCalls == SelectSeq(child.calls, LAMBDA e : e[1] \in {"handler", "alt"})
FilterCalls == SelectSeq(child.calls, LAMBDA e : e[1] = "filter")
RouterCalls == SelectSeq(child.calls, LAMBDA e : e[1] # "init")

\* C3: once the router has scanned the table for a request, the entry it
\* selected is the lowest-index entry before the sentinel whose method is the
\* request's method and whose path is the request path stripped of the base
\* prefix: the scan stopped there and every filter or handler it invoked is
\* that entry's. The selection is a function of the table and the request.
C3_FirstMatchWins ==
    (Routed /\ InBounds /\ MatchSet # {}) =>
        /\ child.i = Min(MatchSet)
        /\ RouterCalls # <<>>
        /\ \A n \in 1..Len(RouterCalls) : RouterCalls[n][2] = Min(MatchSet)

\* A table with a later duplicate of the matching entry; the first was taken.
C3_Witness ==
    /\ child.pc = "exited" /\ Routed /\ InBounds
    /\ Cardinality(MatchSet) >= 2
    /\ child.i = Min(MatchSet)
    /\ HandlerCalls # <<>>

\* C4: whenever the matched route's filter returned a non-empty handler, the
\* returned handler is invoked, the route's main handler is not, and the
\* scan goes no further than that route.
C4_FilterShortCircuit ==
    (FilterCalls # <<>> /\ inp.filter_ret # NULL) =>
        LET k == FilterCalls[1][2]
        IN  /\ RouterCalls = <<<<"filter", k>>, <<"alt", k>>>>
            /\ child.i = k
            /\ child.pc # "route"

C4_Witness ==
    /\ child.pc = "exited"
    /\ FilterCalls # <<>> /\ inp.filter_ret # NULL
    /\ HandlerCalls = <<<<"alt", FilterCalls[1][2]>>>>
    /\ child.sent = 1

\* C5: for a request that matches no entry before the sentinel (a matching
\* path with another method included), no filter and no handler is ever
\* invoked, the status is not-found from the check on, and the response is
\* sent before the worker exits.
C5_NoMatchNotFound ==
    (RequestParsed /\ InBounds /\ MatchSet = {}) =>
        /\ RouterCalls = <<>>
        /\ (child.pc \in {"send", "destroy", "close", "exit", "exited"}
                => child.status = "NOT_FOUND")
        /\ (child.pc \in {"destroy", "close", "exit", "exited"}
                => child.sent = 1)

\* An entry has the request's path but not its method.
C5_Witness ==
    /\ child.pc = "exited" /\ RequestParsed /\ InBounds /\ MatchSet = {}
    /\ \E k \in 0..(Len(actions) - 2) :
           actions[k + 1].route = Stripped /\ actions[k + 1].method # child.method
    /\ child.status = "NOT_FOUND" /\ child.sent = 1 /\ child.calls = <<>>

\* C6: in every state in which the worker creates, reads, routes or answers
\* the request, or cleans up after it, the inherited signalfd and listening
\* socket are closed and the dispatcher is destroyed.
C6_ParentFdsClosed ==
    (child.pc \in {"create", "read", "app_init", "strip", "route", "check",
                   "send", "destroy", "close", "error_cleanup"}
        \/ child.request # "none") =>
        /\ child.sigfd = "closed"
        /\ child.sockfd = "closed"
        /\ child.dispatcher = NULL

C6_Witness ==
    /\ child.pc = "read"
    /\ child.sigfd = "closed" /\ child.sockfd = "closed"
    /\ child.dispatcher = NULL

\* C7: when the protocol read fails the worker never sends a response and
\* never invokes the initializer, a filter or a handler, and it exits with
\* the connection socket closed and a non-zero status; when the read
\* succeeds a worker that exits does so with status 0.
C7_ReadFailure ==
    /\ (inp.unblock_ok /\ ~inp.read_ok) =>
            /\ child.sent = 0
            /\ child.calls = <<>>
            /\ (child.pc = "exited" =>
                    /\ child.how = "exited"
                    /\ child.code # 0
                    /\ child.sock = "closed")
    /\ (inp.unblock_ok /\ inp.read_ok /\ child.pc = "exited"
            /\ child.how = "exited") => child.code = 0

\* The read failed although an initializer is configured.
C7_Witness ==
    /\ inp.unblock_ok /\ ~inp.read_ok /\ app_init # NULL
    /\ child.pc = "exited" /\ child.code = 255 /\ child.sent = 0

\* A worker that stops running in a step becomes a zombie, and the parent
\* takes no step of its own in it.
EndsOnItsOwn(c) ==
    (workers[c].st = "running" /\ workers'[c].st # "running") =>
        /\ workers'[c].st = "zombie"
        /\ UNCHANGED <<ppc, dispvars, connvars, pid, retval>>

\* C8: v8_start has returned only when no worker is running or unreaped, and
\* it returned 0; a worker stops running only by a step of its own, never by
\* a step of the parent (stop and the final wait kill nothing).
C8_FinalReap ==
    /\ [](ppc = "done" => (Children = {} /\ retval = 0))
    /\ [][\A c \in Conns : EndsOnItsOwn(c)]_vars

\* Stop was requested, v8_start returned 0, and a worker whose exit the signal
\* handler never read about has been reaped by the final wait.
C8_Witness ==
    /\ ppc = "done" /\ retval = 0 /\ stop
    /\ "SIGCHLD" \in sigpending
    /\ \A c \in Conns : workers[c].st = "reaped"

\* A step in which the parent accepts nothing, forks nothing, reads no signal
\* record and stays out of the dispatcher loop.
ParentQuiet ==
    /\ ppc' \in {"wait", "done"}
    /\ Consumed = {}
    /\ NewlyForked = {}
    /\ psock' = psock
    /\ Len(backlog') >= Len(backlog)

\* C9: a termination record read by the signal handler calls stop from inside
\* the callback; that neither ends the handler's drain nor drops the rest of
\* the batch; once stop is requested and the batch is finished the loop can
\* only return; and after it returned the parent accepts no connection, forks
\* no worker and reads no signal record.
C9_StopAfterBatch ==
    /\ [][(ppc = "sig" /\ Consumed \cap TerminationFamily # {}) =>
            (stop' /\ ppc' = "sig" /\ batch' = batch)]_vars
    /\ [][(ppc = "loop" /\ batch = {} /\ stop /\ ppc' # ppc) => ppc' = "wait"]_vars
    /\ [][(ppc \in {"wait", "done"}) => ParentQuiet]_vars

\* The loop has returned after a stop request while a connection is pending.
C9_Witness ==
    /\ ppc \in {"wait", "done"} /\ stop /\ stopCalls > 0
    /\ backlog # <<>>

\* What a step taken while the signal handler is between two reads may do.
SignalTurnEffect ==
    /\ (stopCalls' = stopCalls + 1) = (Consumed \cap TerminationFamily # {})
    /\ stopCalls' \in {stopCalls, stopCalls + 1}
    /\ stop' = (stop \/ Consumed \cap TerminationFamily # {})
    /\ (ppc' = "reap") = (Consumed = {"SIGCHLD"})
    /\ NewlyReaped = {}
    /\ NewlyForked = {}
    /\ UNCHANGED <<backlog, psock>> \/ ppc' = ppc

\* C10: a turn of the signal handler calls stop exactly when the record it
\* read is of the termination family, once for that record, and then changes
\* nothing else; it enters the reaping loop exactly when the record is the
\* child-status one; a reload record, a failed read or would-block changes
\* neither; no turn reaps or forks, and stop is called nowhere else.
C10_StopOnlyOnTermination ==
    /\ [][(ppc = "sig") => SignalTurnEffect]_vars
    /\ [][(ppc # "sig") => UNCHANGED <<stop, stopCalls>>]_vars
    /\ [][(NewlyReaped # {}) => (ppc \in {"reap", "wait"})]_vars

\* Two termination records were read, each calling stop.
C10_Witness ==
    /\ stopCalls = 2 /\ stop /\ ppc = "sig"

\* A step of v8_fork in which fork failed: no worker exists afterwards for the
\* connection just accepted.
ForkFailed == ppc = "fork" /\ ppc' # "fork" /\ workers'[newsock].st = "none"

AfterForkFailure ==
    /\ psock'[newsock] = "closed"
    /\ workers' = workers
    /\ ppc' = "conn"
    /\ UNCHANGED <<backlog, batch, stop, stopCalls>>

\* C11: when fork fails for an accepted connection the parent has closed the
\* accepted socket when v8_fork returns, no worker exists for it, the
\* acceptor is back at accept in the same invocation with the pending
\* connections untouched, and the dispatcher is not stopped.
C11_ForkFailureClosesSocket ==
    [][ForkFailed => AfterForkFailure]_vars

\* Fork failed for the first connection and the acceptor has accepted the
\* second one in the same invocation.
C11_Witness ==
    /\ ppc = "fork" /\ newsock = 2 /\ cycles = 1
    /\ workers[1].st = "none" /\ psock[1] = "closed"

\* The life of the worker of connection c: created once, by v8_fork for the
\* connection just accepted, then running, exited, reaped, never back.
WorkerLifecycle(c) ==
    /\ (workers[c].st = "none" /\ workers'[c].st # "none") =>
            (workers'[c].st = "running" /\ ppc = "fork" /\ newsock = c
                /\ psock[c] = "open")
    /\ (workers[c].st = "running") => (workers'[c].st \in {"running", "zombie"})
    /\ (workers[c].st = "zombie") => (workers'[c].st \in {"zombie", "reaped"})
    /\ (workers[c].st = "reaped") => (workers'[c].st = "reaped")

\* C12: the parent holds an accepted socket open only between its accept and
\* the return of v8_fork for it, so it is closed before the next accept; no
\* step of the parent reads a request, routes or answers (the worker's state
\* is never touched); each connection gets at most one worker, created by
\* v8_fork for that connection, which ends as an exited process and never
\* comes back.
C12_ParentWorkerSeparation ==
    /\ [](\A c \in Conns : psock[c] = "open" => (ppc = "fork" /\ newsock = c))
    /\ [](\A c \in Conns : workers[c].st \in {"zombie", "reaped"} =>
                workers[c].how \in {"exited", "signaled"})
    /\ [][UNCHANGED childvars /\ \A c \in Conns : WorkerLifecycle(c)]_vars

\* Two connections accepted, each handed to its own worker, both copies of
\* the parent closed, while the first worker has already exited.
C12_Witness ==
    /\ \A c \in Conns : psock[c] = "closed"
    /\ workers[1].st = "zombie" /\ workers[2].st = "running"

\* C13: an accept failure with an error other than would-block does not end
\* the acceptor's drain: with connections still pending, the handler stays in
\* its loop after a failed accept.
C13_AcceptErrorKeepsDraining ==
    [][(ppc = "conn" /\ backlog # <<>> /\ newsock' = -1) => ppc' = "conn"]_vars

\* C14: each child reaped in the child-status case of the signal handler
\* produces one log entry reporting its outcome.
C14_OutcomeLoggedPerChild ==
    [][(ppc = "reap" /\ NewlyReaped # {}) => outlog' = outlog + 1]_vars

\* The order of the worker's positions.
Rank(pc) ==
    CASE pc = "close_sigfd"        -> 1
      [] pc = "close_sockfd"       -> 2
      [] pc = "destroy_dispatcher" -> 3
      [] pc = "unblock"            -> 4
      [] pc = "create"             -> 5
      [] pc = "read"               -> 6
      [] pc = "app_init"           -> 7
      [] pc = "strip"              -> 8
      [] pc = "route"              -> 9
      [] pc = "check"              -> 10
      [] pc = "send"               -> 11
      [] pc = "destroy"            -> 12
      [] pc = "close"              -> 13
      [] pc = "error_cleanup"      -> 13
      [] pc = "exit"               -> 14
      [] pc = "exited"             -> 15

\* A step of the worker goes to the next position; the scan of the table
\* goes on to the next entry; a failure goes to the exit path.
LinearStep ==
    \/ Rank(child'.pc) = Rank(child.pc) + 1
            /\ ~(child.pc = "unblock" /\ ~inp.unblock_ok)
            /\ ~(child.pc = "read" /\ ~inp.read_ok)
    \/ child.pc = "route" /\ child'.pc = "route" /\ child'.i = child.i + 1
    \/ child.pc = "unblock" /\ ~inp.unblock_ok /\ child'.pc = "exit"
    \/ child.pc = "read" /\ ~inp.read_ok /\ child'.pc = "error_cleanup"
    \/ child.pc = "strip" /\ child'.pc = "exited" /\ child'.how = "signaled"

\* Where the response, the Request and Response objects and the connection
\* socket are at each position.
SendOrder ==
    /\ child.sent <= 1
    /\ (child.sent = 1) = (child.pc \in {"destroy", "close"}
                            \/ (child.pc \in {"exit", "exited"}
                                /\ child.response = "destroyed"))
    /\ (child.response = "destroyed") = (child.request = "destroyed")
    /\ child.response = "destroyed" =>
            (child.sent = 1 /\ child.pc \in {"close", "exit", "exited"})
    /\ child.pc \in {"send", "destroy", "close"} => child.sock = "open"
    /\ (child.pc = "exited" /\ child.how = "exited" /\ inp.unblock_ok
            /\ inp.read_ok) =>
            (child.sent = 1 /\ child.response = "destroyed"
                /\ child.sock = "closed")

\* C15: the worker's positions follow one another in the order release,
\* unblock, read, initializer, route, check, send, destroy, close, exit, none
\* repeated and none revisited; a failure leads to the exit path only; the
\* response is sent exactly once on every path where the read succeeded and
\* the worker exits, after the router's check and before the Request and
\* Response are destroyed and the socket is closed.
C15_LinearLifecycle ==
    /\ []SendOrder
    /\ [][child' # child => LinearStep]_vars

\* The response has been sent once, the objects are destroyed, the socket is
\* still to be closed.
C15_Witness ==
    /\ child.pc = "close" /\ child.sent = 1
    /\ child.response = "destroyed" /\ child.sock = "open"

InitCalls == SelectSeq(child.calls, LAMBDA e : e[1] = "init")

\* C16: the initializer is invoked at most once; with one configured it has
\* been invoked exactly when the request was read successfully and the
\* initializer step is passed, it is then the first call of all, before any
\* filter or handler, and the application data is its result from then on;
\* without it, or before it ran, the application data is empty.
C16_InitializerOnce ==
    /\ Len(InitCalls) <= 1
    /\ (InitCalls # <<>>) =
            (app_init # NULL /\ RequestParsed /\ child.pc # "app_init")
    /\ InitCalls # <<>> => child.calls[1] = <<"init", 0>>
    /\ (child.app_data = "data") = (InitCalls # <<>>)
    /\ (child.app_data = NULL) = (InitCalls = <<>>)

\* A handler has run after the initializer and the data is set.
C16_Witness ==
    /\ app_init # NULL /\ child.pc = "exited"
    /\ Len(child.calls) >= 2 /\ child.calls[1] = <<"init", 0>>
    /\ HandlerCalls # <<>> /\ child.app_data = "data"

\* C17: when the matched route has no filter, or its filter returned empty,
\* the route's main handler is the one handler invoked, once, and the router
\* does not set the not-found status.
C17_MainHandlerRuns ==
    (Routed /\ InBounds /\ MatchSet # {}
        /\ (actions[Min(MatchSet) + 1].filter = NULL \/ inp.filter_ret = NULL)) =>
        /\ HandlerCalls = <<<<"handler", Min(MatchSet)>>>>
        /\ child.status # "NOT_FOUND"

\* The matched route has a filter, which returned empty.
C17_Witness ==
    /\ child.pc = "exited" /\ Routed /\ InBounds /\ MatchSet # {}
    /\ actions[Min(MatchSet) + 1].filter # NULL /\ inp.filter_ret = NULL
    /\ child.calls = <<<<"filter", Min(MatchSet)>>, <<"handler", Min(MatchSet)>>>>
    /\ child.status = "DEFAULT" /\ child.sent = 1

\* The router's check of the scan's result is passed.
AfterCheck ==
    \/ child.pc \in {"send", "destroy", "close"}
    \/ child.pc \in {"exit", "exited"} /\ child.sent > 0

\* Entry k is what the router compares against: it has the request's method
\* and the string the router compares (child.path).
ComparesEqual(k) ==
    actions[k + 1].method = child.method /\ actions[k + 1].route = child.path

\* C19: the router invokes at most one handler and at most one filter, all
\* of one entry before the sentinel, which is the first entry that compares
\* equal and has a path; the not-found status is set exactly when the check
\* is passed and no handler was invoked.
C19_OneHandlerOneFilter ==
    /\ Len(HandlerCalls) <= 1
    /\ Len(FilterCalls) <= 1
    /\ \A n \in 1..Len(RouterCalls) :
            LET k == RouterCalls[n][2]
            IN  /\ k = child.i
                /\ k < Len(actions) - 1
                /\ actions[k + 1].route # NullStr
                /\ ComparesEqual(k)
                /\ \A j \in 0..(k - 1) : ~ComparesEqual(j)
    /\ (child.status = "NOT_FOUND") = (AfterCheck /\ HandlerCalls = <<>>)

\* An entry with the request's method and no path precedes the entry taken.
C19_Witness ==
    /\ child.pc = "exited" /\ Len(HandlerCalls) = 1 /\ child.i = 1
    /\ actions[1].route = NullStr /\ actions[1].method = child.method
    /\ child.status = "DEFAULT"

\* The entry a method and a remainder select, the sentinel when none does.
SelectedFor == IF MatchSet = {} THEN Len(actions) - 1 ELSE Min(MatchSet)

\* C20: for a request path at least base_size long the router compares the
\* path from offset base_size on, and the entry it selects is determined by
\* the method and that remainder alone: the first base_size characters play
\* no part.
C20_PositionalStrip ==
    (Routed /\ InBounds) =>
        /\ child.path = Stripped
        /\ child.i = SelectedFor

\* A path whose first character is 'b' selects the route "a" under a base
\* prefix of length one.
C20_Witness ==
    /\ base_size = 1 /\ child.route = <<98, 97>>
    /\ child.pc = "exited" /\ HandlerCalls # <<>>
    /\ actions[child.i + 1].route = <<97>>

====
